---- MODULE Spec2Model ----
\* FastqIter of dnaio/_core.pyx: the buffered, pull-based FASTQ parser, its
\* byte source, and the record serializer create_fastq_record.
\*
\* Bytes are integers 0..255.  Offsets are 0-based as in the C code; the
\* operators At and Slice translate them to TLA+ sequences.  Memory allocation
\* (PyMem_Malloc, PyMem_Realloc, PyUnicode_New) is assumed to succeed.
EXTENDS Integers, Sequences, FiniteSets, TLC

\* ------------------------------------------------------------------ bounds

\* longest log of completed pulls (returned values and raised errors) kept
MaxEvents == 6
\* the initial buffer sizes tried are 1..MaxInitCap and BigCap
MaxInitCap == 2
\* the source input is cut short by 0..MaxDrop trailing bytes
MaxDrop == 3
\* a short read returns 1..MaxShortRead bytes; a full read returns all asked for
MaxShortRead == 2
\* an initial buffer size that no input of the model fills
BigCap == 32
\* a file that breaks the contract of read returns 1..MaxExcess bytes too many
MaxExcess == 1
\* the longest name, sequence and qualities of a record that is serialized
MaxFieldLen == 1
\* the longest header whose id is compared
MaxHeaderLen == 2
\* the most lines of a buffer whose head of whole records is looked for
MaxLines == 9

\* ------------------------------------------------------- program constants

LF == 10
CR == 13
AT == 64
PLUS == 43
NUL == 0
\* the result of memchr when the byte is not found
NULL == -1
\* content of a byte of the buffer that was allocated and never written
Uninit == -2
\* the cap on the tail shown in the premature-end-of-file message
ShortenTo == 500
\* (size_t)0 - 1; it stands here for 2^64 - 1, above every length
SIZE_MAX == 2147483647
\* ' ', tab, and the digits that number the reads of a pair
SPACE == 32
TAB == 9
ONE == 49
THREE == 51

\* ------------------------------------------------------------- C helpers

Min(a, b) == IF a <= b THEN a ELSE b

MinOf(S) == CHOOSE x \in S : \A y \in S : x <= y

\* buf[i] of the C code
At(buf, i) == buf[i + 1]

\* buf[lo:hi] of the Python code
Slice(buf, lo, hi) == SubSeq(buf, lo + 1, hi)

\* memchr(buf + start, '\n', n): offset of the first LF in [start, start+n)
memchr(buf, start, n) ==
    LET hits == {i \in start..(start + n - 1) : At(buf, i) = LF}
    IN  IF hits = {} THEN NULL ELSE MinOf(hits)

\* bytes.count(b'\n')
count(s) == Cardinality({i \in 1..Len(s) : s[i] = LF})

\* memmove that copies every byte but the last
memmove_short(buf, from, n) ==
    [i \in 1..Len(buf) |-> IF i < n THEN buf[from + i] ELSE buf[i]]

\* memmove(buf, buf + from, n)
memmove(buf, from, n) ==
    [i \in 1..Len(buf) |-> IF i <= n THEN buf[from + i] ELSE buf[i]]

\* memcpy(buf + at, chunk, len(chunk))
memcpy(buf, at, chunk) ==
    [i \in 1..Len(buf) |->
        IF i > at /\ i <= at + Len(chunk) THEN chunk[i - at] ELSE buf[i]]

\* strncmp(buf + p, buf + q, n) == 0: the comparison stops at the first
\* difference, at a NUL byte, or after n bytes
strncmp_equal(buf, p, q, n) ==
    LET diff == {j \in 0..(n - 1) : At(buf, p + j) # At(buf, q + j)}
        nuls == {j \in 0..(n - 1) : At(buf, p + j) = NUL}
    IN  \/ diff = {}
        \/ nuls # {} /\ MinOf(nuls) < MinOf(diff)

\* dnaio._util.shorten(s, n): s when it fits, else n-3 characters and "..."
shorten(s, n) ==
    IF Len(s) > n THEN SubSeq(s, 1, n - 3) \o <<46, 46, 46>> ELSE s

\* ------------------------------------------------------------- events

\* What a pull hands to its caller.  type is "Header" (the special first
\* value), "Record", "End" (StopIteration) or "Error" (FastqFormatError).
Event(t) ==
    [type |-> t, flag |-> FALSE, cls |-> "", name |-> <<>>, sequence |-> <<>>,
     qualities |-> <<>>, kind |-> "", line |-> 0, msg |-> <<>>]

HeaderEvent(b) == [Event("Header") EXCEPT !.flag = b]

EndEvent == Event("End")

\* the pull has not returned: the loop of __next__ goes round again
NoEvent == Event("None")

RecordEvent(c, n, s, q) ==
    [Event("Record") EXCEPT !.cls = c, !.name = n, !.sequence = s, !.qualities = q]

ErrorEvent(k, l, m) == [Event("Error") EXCEPT !.kind = k, !.line = l, !.msg = m]

\* ------------------------------------------------------------- FastqIter

SequenceClasses == {"Sequence", "BytesSequence", "Custom"}

\* __cinit__
FastqIter_cinit(sequence_class, buffer_size) ==
    [buffer_size |-> buffer_size,
     buffer |-> [i \in 1..buffer_size |-> Uninit],
     bytes_in_buffer |-> 0,
     sequence_class |-> sequence_class,
     save_as_bytes |-> (sequence_class = "BytesSequence"),
     use_custom_class |-> (sequence_class \notin {"Sequence", "BytesSequence"}),
     number_of_records |-> 0,
     extra_newline |-> FALSE,
     yielded_two_headers |-> FALSE,
     eof |-> FALSE,
     record_start |-> 0]

\* make_room with the doubled buffer allocated afresh, its content lost
make_room_fresh(self) ==
    IF self.record_start = 0 /\ self.bytes_in_buffer = self.buffer_size
    THEN [self EXCEPT
            !.buffer_size = 2 * @,
            !.buffer = [i \in 1..(2 * self.buffer_size) |-> Uninit]]
    ELSE LET remaining_bytes == self.bytes_in_buffer - self.record_start
         IN  [self EXCEPT
                !.buffer = memmove(@, self.record_start, remaining_bytes),
                !.bytes_in_buffer = remaining_bytes,
                !.record_start = 0]

\* make_room that doubles every full buffer, whether or not the pending bytes
\* start at offset 0
make_room_whenever_full(self) ==
    IF self.bytes_in_buffer = self.buffer_size
    THEN [self EXCEPT
            !.buffer_size = 2 * @,
            !.buffer = @ \o [i \in 1..self.buffer_size |-> Uninit]]
    ELSE LET remaining_bytes == self.bytes_in_buffer - self.record_start
         IN  [self EXCEPT
                !.buffer = memmove(@, self.record_start, remaining_bytes),
                !.bytes_in_buffer = remaining_bytes,
                !.record_start = 0]

\* make_room that never doubles the buffer: a full buffer is only compacted
make_room_never_grows(self) ==
    LET remaining_bytes == self.bytes_in_buffer - self.record_start
    IN  [self EXCEPT
           !.buffer = memmove(@, self.record_start, remaining_bytes),
           !.bytes_in_buffer = remaining_bytes,
           !.record_start = 0]

\* _read_into_buffer, first part: double the buffer, or move the pending
\* bytes to its start
make_room(self) ==
    IF self.record_start = 0 /\ self.bytes_in_buffer = self.buffer_size
    THEN [self EXCEPT
            !.buffer_size = 2 * @,
            !.buffer = @ \o [i \in 1..self.buffer_size |-> Uninit]]
    ELSE LET remaining_bytes == self.bytes_in_buffer - self.record_start
         IN  [self EXCEPT
                !.buffer = memmove(@, self.record_start, remaining_bytes),
                !.bytes_in_buffer = remaining_bytes,
                !.record_start = 0]

\* empty_bytes_in_buffer that leaves the last byte of the buffer unused
empty_bytes_in_buffer_less_one(self) ==
    make_room(self).buffer_size - make_room(self).bytes_in_buffer - 1

\* the number of bytes _read_into_buffer asks the file for
empty_bytes_in_buffer(self) ==
    make_room(self).buffer_size - make_room(self).bytes_in_buffer

\* end_of_file without the tolerance for a missing last line feed
end_of_file_strict(s) ==
    IF s.bytes_in_buffer = 0
    THEN [self |-> [s EXCEPT !.eof = TRUE], raised |-> FALSE, error |-> NoEvent]
    ELSE LET tail == Slice(s.buffer, s.record_start, s.bytes_in_buffer)
         IN  [self |-> s, raised |-> TRUE,
              error |-> ErrorEvent("premature_eof",
                                   s.number_of_records * 4 + count(tail),
                                   <<shorten(tail, ShortenTo)>>)]

\* end_of_file reporting the tail with the line feed it added itself
end_of_file_keeps_newline(s) ==
    IF s.bytes_in_buffer = 0
    THEN [self |-> [s EXCEPT !.eof = TRUE], raised |-> FALSE, error |-> NoEvent]
    ELSE IF ~s.extra_newline /\ At(s.buffer, s.bytes_in_buffer - 1) # LF
    THEN [self |-> [s EXCEPT
                      !.buffer = memcpy(@, s.bytes_in_buffer, <<LF>>),
                      !.bytes_in_buffer = @ + 1,
                      !.extra_newline = TRUE],
          raised |-> FALSE, error |-> NoEvent]
    ELSE LET tail == Slice(s.buffer, s.record_start, s.bytes_in_buffer)
         IN  [self |-> s, raised |-> TRUE,
              error |-> ErrorEvent("premature_eof",
                                   s.number_of_records * 4 + count(tail),
                                   <<shorten(tail, ShortenTo)>>)]

\* _read_into_buffer, last part: the file returned no bytes
end_of_file(s) ==
    IF s.bytes_in_buffer = 0
    THEN [self |-> [s EXCEPT !.eof = TRUE], raised |-> FALSE, error |-> NoEvent]
    ELSE IF ~s.extra_newline /\ At(s.buffer, s.bytes_in_buffer - 1) # LF
    THEN [self |-> [s EXCEPT
                      !.buffer = memcpy(@, s.bytes_in_buffer, <<LF>>),
                      !.bytes_in_buffer = @ + 1,
                      !.extra_newline = TRUE],
          raised |-> FALSE, error |-> NoEvent]
    ELSE LET t == IF s.extra_newline
                  THEN [s EXCEPT !.bytes_in_buffer = @ - 1]
                  ELSE s
             tail == Slice(t.buffer, t.record_start, t.bytes_in_buffer)
         IN  [self |-> t, raised |-> TRUE,
              error |-> ErrorEvent("premature_eof",
                                   t.number_of_records * 4 + count(tail),
                                   <<shorten(tail, ShortenTo)>>)]

\* read_into_buffer that takes a read of no bytes for a read like any other
read_into_buffer_blind(self, filechunk) ==
    LET s == make_room(self)
        filled == [s EXCEPT
                     !.buffer = memcpy(@, s.bytes_in_buffer, filechunk),
                     !.bytes_in_buffer = @ + Len(filechunk)]
    IN  IF Len(filechunk) > s.buffer_size - s.bytes_in_buffer
        THEN [self |-> s, raised |-> TRUE,
              error |-> ErrorEvent("too_much", 0,
                                   <<s.buffer_size - s.bytes_in_buffer, Len(filechunk)>>)]
        ELSE [self |-> filled, raised |-> FALSE, error |-> NoEvent]

\* read_into_buffer without the check of the size of what the file returns:
\* the bytes that do not fit are written past the end of the buffer
read_into_buffer_unchecked(self, filechunk) ==
    LET s == make_room(self)
        room == [i \in 1..Len(filechunk) |-> Uninit]
        filled == [s EXCEPT
                     !.buffer = SubSeq(memcpy(@ \o room, s.bytes_in_buffer, filechunk),
                                       1, Len(@) + Len(filechunk)
                                            - Min(Len(filechunk),
                                                  s.buffer_size - s.bytes_in_buffer)),
                     !.bytes_in_buffer = @ + Len(filechunk)]
    IN  IF Len(filechunk) = 0
        THEN end_of_file(filled)
        ELSE [self |-> filled, raised |-> FALSE, error |-> NoEvent]

\* _read_into_buffer, given the bytes the file returns
read_into_buffer(self, filechunk) ==
    LET s == make_room(self)
        filled == [s EXCEPT
                     !.buffer = memcpy(@, s.bytes_in_buffer, filechunk),
                     !.bytes_in_buffer = @ + Len(filechunk)]
    IN  IF Len(filechunk) > s.buffer_size - s.bytes_in_buffer
        THEN [self |-> s, raised |-> TRUE,
              error |-> ErrorEvent("too_much", 0,
                                   <<s.buffer_size - s.bytes_in_buffer, Len(filechunk)>>)]
        ELSE IF Len(filechunk) = 0
        THEN end_of_file(filled)
        ELSE [self |-> filled, raised |-> FALSE, error |-> NoEvent]

\* __next__: the k-th of the four memchr calls, each starting one past the
\* line feed the call before it found: the offset of the k-th line feed from
\* record_start on, NULL when it or one before it is missing
RECURSIVE newline_at(_, _)
newline_at(self, k) ==
    IF k = 1
    THEN memchr(self.buffer, self.record_start,
                self.bytes_in_buffer - self.record_start)
    ELSE CHOOSE e \in {IF p = NULL THEN NULL
                       ELSE memchr(self.buffer, p + 1, self.bytes_in_buffer - (p + 1)) :
                          p \in {newline_at(self, k - 1)}} : TRUE

\* __next__: name_end, sequence_end, second_header_end and qualities_end
locate(self) ==
    [name_end |-> newline_at(self, 1), sequence_end |-> newline_at(self, 2),
     second_header_end |-> newline_at(self, 3),
     qualities_end |-> newline_at(self, 4)]

\* a complete record (four newlines) is in the buffer
complete(self) == newline_at(self, 4) # NULL

\* strip_cr without the compensation for CR LF
strip_cr_never(buf, line_end, b) == b

\* b - 1 when the line ending at offset line_end ends in CR, else b
strip_cr(buf, line_end, b) == IF At(buf, line_end - 1) = CR THEN b - 1 ELSE b

\* __next__: starts and lengths of the four fields, CR compensated
fields(self) ==
  CHOOSE f \in {
    LET buf == self.buffer
        name_start == self.record_start + 1
        sequence_start == at.name_end + 1
        second_header_start == at.sequence_end + 1 + 1
        qualities_start == at.second_header_end + 1
    IN  [name_start |-> name_start,
         name_end |-> at.name_end,
         name_length |-> strip_cr(buf, at.name_end, at.name_end - name_start),
         sequence_start |-> sequence_start,
         sequence_length |->
             strip_cr(buf, at.sequence_end, at.sequence_end - sequence_start),
         second_header_start |-> second_header_start,
         second_header_end |-> at.second_header_end,
         second_header_length |->
             strip_cr(buf, at.second_header_end,
                      at.second_header_end - second_header_start),
         qualities_start |-> qualities_start,
         qualities_length |->
             strip_cr(buf, at.qualities_end, at.qualities_end - qualities_start),
         qualities_end |-> at.qualities_end] : at \in {locate(self)}} : TRUE

\* __next__: the second header is given and differs from the name
descriptions_differ(self) ==
    LET f == fields(self)
    IN  /\ f.second_header_length # 0
        /\ \/ f.name_length # f.second_header_length
           \/ ~strncmp_equal(self.buffer, f.second_header_start, f.name_start,
                             f.second_header_length)

\* lengths_differ with the check left to the constructors of the built-in
\* classes
lengths_differ_builtin_only(self) ==
    /\ ~self.use_custom_class
    /\ fields(self).qualities_length # fields(self).sequence_length

\* lengths_differ with an empty sequence taken for a length error
lengths_differ_or_empty(self) ==
    \/ fields(self).qualities_length # fields(self).sequence_length
    \/ fields(self).sequence_length = 0

\* __next__: the sequence and the qualities differ in length
lengths_differ(self) ==
    fields(self).qualities_length # fields(self).sequence_length

\* __next__: the checks of a complete record, in order; the FastqFormatError
\* raised, or NoEvent when the record passes
format_error(self) ==
    LET buf == self.buffer
        at == locate(self)
        f == fields(self)
        n == self.number_of_records
    IN  IF At(buf, self.record_start) # AT
        THEN ErrorEvent("no_at", n * 4, <<<<At(buf, self.record_start)>>>>)
        ELSE IF At(buf, at.sequence_end + 1) # PLUS
        THEN ErrorEvent("no_plus", n * 4 + 2, <<<<At(buf, at.sequence_end + 1)>>>>)
        ELSE IF descriptions_differ(self)
        THEN ErrorEvent("descriptions", n * 4 + 2,
                        <<Slice(buf, f.name_start, f.name_end),
                          Slice(buf, f.second_header_start, f.second_header_end)>>)
        ELSE IF lengths_differ(self)
        THEN ErrorEvent("lengths", n * 4 + 3, <<>>)
        ELSE NoEvent

\* header_due with the special first value forgotten
header_due_never(self) == FALSE

\* __next__: the first yielded value is still due
header_due(self) == self.number_of_records = 0 /\ ~self.yielded_two_headers

\* header_value taken from the second header before the CR is compensated
header_value_unstripped(self) ==
    fields(self).second_header_end - fields(self).second_header_start # 0

\* __next__: the special first value
header_value(self) == fields(self).second_header_length # 0

\* __next__: the record object built from the buffer
materialize(self) ==
    LET f == fields(self)
        buf == self.buffer
    IN  RecordEvent(self.sequence_class,
            Slice(buf, f.name_start, f.name_start + f.name_length),
            Slice(buf, f.sequence_start, f.sequence_start + f.sequence_length),
            Slice(buf, f.qualities_start, f.qualities_start + f.qualities_length))

\* advance stopping on the last line feed of the record, not past it
advance_short(self) ==
    [self EXCEPT !.number_of_records = @ + 1,
                 !.record_start = fields(self).qualities_end]

\* __next__: advance to the next record
advance(self) ==
    [self EXCEPT !.number_of_records = @ + 1,
                 !.record_start = fields(self).qualities_end + 1]

\* create_fastq_record repeating the name after the '+' whatever two_headers
create_fastq_record_repeating(name, sequence, qualities, two_headers) ==
    <<AT>> \o name \o <<LF>> \o sequence \o <<LF>> \o <<PLUS>>
        \o name \o <<LF>> \o qualities \o <<LF>>

\* retval_ptr[at] = b
poke(buf, at, b) == [buf EXCEPT ![at + 1] = b]

\* create_fastq_record with the last line feed never written
create_fastq_record_unterminated(name, sequence, qualities, two_headers) ==
    <<AT>> \o name \o <<LF>> \o sequence \o <<LF>> \o <<PLUS>>
        \o (IF two_headers THEN name ELSE <<>>) \o <<LF>> \o qualities \o <<Uninit>>

\* create_fastq_record: a bytes object of total_size unwritten bytes, filled
\* from left to right; cursor is the offset of the next write
create_fastq_record(name, sequence, qualities, two_headers) ==
    LET total_size == Len(name) + Len(sequence) + Len(qualities) + 6
                        + (IF two_headers THEN Len(name) ELSE 0)
        retval == [i \in 1..total_size |-> Uninit]
        at_sequence == Len(name) + 2
        at_plus == at_sequence + Len(sequence) + 1
        at_qualities == at_plus + 1 + (IF two_headers THEN Len(name) ELSE 0) + 1
        with_name == poke(memcpy(poke(retval, 0, AT), 1, name), Len(name) + 1, LF)
        with_sequence ==
            poke(memcpy(with_name, at_sequence, sequence), at_plus - 1, LF)
        with_plus ==
            IF two_headers
            THEN memcpy(poke(with_sequence, at_plus, PLUS), at_plus + 1, name)
            ELSE poke(with_sequence, at_plus, PLUS)
        with_qualities ==
            memcpy(poke(with_plus, at_qualities - 1, LF), at_qualities, qualities)
    IN  poke(with_qualities, at_qualities + Len(qualities), LF)

\* Sequence.fastq_bytes and BytesSequence.fastq_bytes of a record the parser
\* built: its three fields are one byte per character
fastq_bytes(r, two_headers) ==
    create_fastq_record(r.name, r.sequence, r.qualities, two_headers)

\* the kind of a str object: the width in bytes of its widest character
PyUnicode_KIND(str) ==
    IF \A i \in 1..Len(str) : str[i] <= 255 THEN 1
    ELSE IF \A i \in 1..Len(str) : str[i] <= 65535 THEN 2
    ELSE 4

PyUnicode_1BYTE_KIND == 1

\* str.encode succeeds: no character is above the last one of the codec
\* (127 for 'ascii', 255 for 'latin-1')
encodes(str, last) == \A i \in 1..Len(str) : str[i] <= last

\* what a call returns, or that it raised
Returned(value) == [raised |-> FALSE, value |-> value]
Raised(exception) == [raised |-> TRUE, value |-> exception]

\* Sequence.fastq_bytes: the three fields are str objects (sequences of code
\* points), none of them None.  The data of a one-byte-kind str is used as it
\* is; any other is encoded, the name as 'latin-1', the others as 'ascii'.
Sequence_fastq_bytes(name, sequence, qualities, two_headers) ==
    IF PyUnicode_KIND(name) # PyUnicode_1BYTE_KIND /\ ~encodes(name, 255)
    THEN Raised("UnicodeEncodeError")
    ELSE IF PyUnicode_KIND(sequence) # PyUnicode_1BYTE_KIND /\ ~encodes(sequence, 127)
    THEN Raised("UnicodeEncodeError")
    ELSE IF PyUnicode_KIND(qualities) # PyUnicode_1BYTE_KIND /\ ~encodes(qualities, 127)
    THEN Raised("UnicodeEncodeError")
    ELSE Returned(create_fastq_record(name, sequence, qualities, two_headers))

\* BytesSequence.fastq_bytes: the three fields are bytes objects
BytesSequence_fastq_bytes(name, sequence, qualities, two_headers) ==
    Returned(create_fastq_record(name, sequence, qualities, two_headers))

\* stop_iteration with the eof flag ignored
stop_iteration_never(self) == FALSE

\* __next__: the iterator is exhausted
stop_iteration(self) == self.eof

\* __next__: one pass of its loop, given the bytes the file returns should
\* the pass read.  event is NoEvent when the loop goes round again; read tells
\* whether the pass called file.read.
next_pass(self, filechunk) ==
    IF stop_iteration(self)
    THEN [self |-> self, event |-> EndEvent, read |-> FALSE]
    ELSE IF ~complete(self)
    THEN LET r == read_into_buffer(self, filechunk)
         IN  [self |-> r.self, event |-> r.error, read |-> TRUE]
    ELSE IF format_error(self) # NoEvent
    THEN [self |-> self, event |-> format_error(self), read |-> FALSE]
    ELSE IF header_due(self)
    THEN [self |-> [self EXCEPT !.yielded_two_headers = TRUE],
          event |-> HeaderEvent(header_value(self)), read |-> FALSE]
    ELSE [self |-> advance(self), event |-> materialize(self), read |-> FALSE]

\* The whole life of an iterator over a file whose every read returns all
\* that is asked for: the events of its pulls, up to MaxEvents of them.
RECURSIVE drive(_, _, _, _)
drive(self, data, pos, evs) ==
    IF Len(evs) >= MaxEvents THEN evs
    ELSE LET n == IF stop_iteration(self) \/ complete(self) THEN 0
                  ELSE Min(empty_bytes_in_buffer(self), Len(data) - pos)
         IN  CHOOSE out \in
                 {drive(r.self, data, pos + n,
                        IF r.event = NoEvent THEN evs ELSE Append(evs, r.event)) :
                     r \in {next_pass(self, SubSeq(data, pos + 1, pos + n))}} : TRUE

\* list(FastqIter(io.BytesIO(data), sequence_class, buffer_size)), errors
\* and ends included
Parse(data, sequence_class, buffer_size) ==
    drive(FastqIter_cinit(sequence_class, buffer_size), data, 0, <<>>)

\* ------------------------------------------------------------- the file

\* file.read(n) with `left` bytes left: nothing at the end of the stream, else
\* all that was asked for or a short read
read_sizes(n, left) ==
    IF left = 0 THEN {0}
    ELSE {Min(n, left)} \cup (1..Min(MaxShortRead, Min(n, left)))

\* ------------------------------------------------------------- inputs

\* The source holds up to two four-line blocks, the last bytes cut off.  One
\* block is plain; in the other, up to two lines depart from the plain ones:
\* CR LF endings, a field ending in CR, a missing '@' or '+', a repeated or
\* differing second header, a longer sequence or quality line.
NameLines == {<<64, 97>>, <<64, 97, 13>>, <<64, 97, 13, 13>>, <<97>>}
SequenceLines == {<<65>>, <<65, 13>>, <<65, 67>>}
SecondHeaderLines ==
    {<<43>>, <<43, 13>>, <<43, 97>>, <<43, 97, 13>>, <<43, 98>>, <<45>>}
QualityLines == {<<33>>, <<33, 13>>, <<33, 33>>}

PlainBlock == <<<<64, 97>>, <<65>>, <<43>>, <<33>>>>
LeadBlock == <<<<64, 98>>, <<67>>, <<43, 98>>, <<35>>>>

\* blocks with a NUL byte in the name and in the second header (the headers
\* equal, or differing after the NUL), and blocks with empty fields
ExtraBlocks ==
    {<<<<64, 0, 97>>, <<65>>, <<43, 0, 97>>, <<33>>>>,
     <<<<64, 0, 97>>, <<65>>, <<43, 0, 98>>, <<33>>>>,
     <<<<64>>, <<65>>, <<43>>, <<33>>>>,
     <<<<64, 97>>, <<>>, <<43>>, <<>>>>}

Blocks ==
    {b \in NameLines \X SequenceLines \X SecondHeaderLines \X QualityLines :
        Cardinality({i \in 1..4 : b[i] # PlainBlock[i]}) <= 2}
    \cup ExtraBlocks

BlockBytes(b) ==
    b[1] \o <<LF>> \o b[2] \o <<LF>> \o b[3] \o <<LF>> \o b[4] \o <<LF>>

DropLast(s, d) == SubSeq(s, 1, Len(s) - Min(d, Len(s)))

\* F.replace(b"\n", b"\r\n")
RECURSIVE ToCRLF(_)
ToCRLF(F) ==
    IF F = <<>> THEN <<>>
    ELSE (IF Head(F) = LF THEN <<CR, LF>> ELSE <<Head(F)>>) \o ToCRLF(Tail(F))

Inputs ==
    {<<>>}
    \cup {DropLast(BlockBytes(b), d) : b \in Blocks, d \in 0..MaxDrop}
    \cup {DropLast(BlockBytes(LeadBlock) \o BlockBytes(b), d) :
            b \in Blocks, d \in 0..MaxDrop}
    \cup {ToCRLF(BlockBytes(PlainBlock)),
          ToCRLF(BlockBytes(LeadBlock) \o BlockBytes(PlainBlock))}

InitialCapacities == (1..MaxInitCap) \cup {BigCap}

\* ------------------------------------------------------------- the system

VARIABLES
    it,           \* the FastqIter object
    file_data,    \* the bytes of the file
    file_pos,     \* how many of them the file has returned
    read_called,  \* whether the latest pass of the loop called file.read
    returned,     \* whether the latest pass ended its pull (no pull is open)
    zero_reads,   \* the reads of the current or latest pull that got no bytes
    events,       \* what the pulls so far returned or raised, oldest first
    frame         \* the call in progress of a function that is not the iterator's

\* the variables of the iterator and its file
parser_vars == <<it, file_data, file_pos, read_called, returned, zero_reads, events>>

vars == <<it, file_data, file_pos, read_called, returned, zero_reads, events, frame>>

\* no function is being called
NoFrame == [fn |-> "none"]

Init ==
    /\ file_data \in Inputs
    /\ file_pos = 0
    /\ read_called = FALSE
    /\ returned = TRUE
    /\ zero_reads = 0
    /\ \E c \in SequenceClasses, n \in InitialCapacities : it = FastqIter_cinit(c, n)
    /\ events = <<>>
    /\ frame = NoFrame

\* one pass of the loop of __next__, the file returning n bytes in it
Pass(n) ==
    \E r \in {next_pass(it, SubSeq(file_data, file_pos + 1, file_pos + n))} :
        /\ it' = r.self
        /\ file_pos' = file_pos + n
        /\ read_called' = r.read
        /\ returned' = (r.event # NoEvent)
        /\ zero_reads' = (IF returned THEN 0 ELSE zero_reads)
                            + (IF r.read /\ n = 0 THEN 1 ELSE 0)
        /\ events' = IF r.event = NoEvent THEN events ELSE Append(events, r.event)
        /\ UNCHANGED <<file_data, frame>>

\* __next__ raises StopIteration
StopIteration ==
    /\ Len(events) < MaxEvents
    /\ stop_iteration(it)
    /\ Pass(0)

\* __next__ finds no complete record and _read_into_buffer gets bytes
ReadChunk ==
    /\ Len(events) < MaxEvents
    /\ ~stop_iteration(it)
    /\ ~complete(it)
    /\ file_pos < Len(file_data)
    /\ \E n \in read_sizes(empty_bytes_in_buffer(it), Len(file_data) - file_pos) :
          Pass(n)

\* __next__ finds no complete record and _read_into_buffer gets no bytes
ReadAtEnd ==
    /\ Len(events) < MaxEvents
    /\ ~stop_iteration(it)
    /\ ~complete(it)
    /\ file_pos = Len(file_data)
    /\ Pass(0)

\* __next__ raises FastqFormatError for a complete record
RaiseFormatError ==
    /\ Len(events) < MaxEvents
    /\ ~stop_iteration(it)
    /\ complete(it)
    /\ format_error(it) # NoEvent
    /\ Pass(0)

\* __next__ returns the special first value
YieldHeader ==
    /\ Len(events) < MaxEvents
    /\ ~stop_iteration(it)
    /\ complete(it)
    /\ format_error(it) = NoEvent
    /\ header_due(it)
    /\ Pass(0)

\* __next__ returns a record
YieldRecord ==
    /\ Len(events) < MaxEvents
    /\ ~stop_iteration(it)
    /\ complete(it)
    /\ format_error(it) = NoEvent
    /\ ~header_due(it)
    /\ Pass(0)

Next ==
    \/ StopIteration
    \/ ReadChunk
    \/ ReadAtEnd
    \/ RaiseFormatError
    \/ YieldHeader
    \/ YieldRecord

Spec == Init /\ [][Next]_vars

\* the blocks with at most one line that departs from the plain ones
NearPlainBlocks ==
    {b \in Blocks : Cardinality({i \in 1..4 : b[i] # PlainBlock[i]}) <= 1}

\* the files whose pulls are followed to their ends: the empty file, one
\* block with at most one departing line, and two plain blocks, the last
\* bytes cut off
LiveInputs ==
    {<<>>}
    \cup {DropLast(BlockBytes(b), d) : b \in NearPlainBlocks, d \in 0..MaxDrop}
    \cup {DropLast(BlockBytes(LeadBlock) \o BlockBytes(PlainBlock), d) : d \in 0..MaxDrop}

InitLive ==
    /\ file_data \in LiveInputs
    /\ file_pos = 0
    /\ read_called = FALSE
    /\ returned = TRUE
    /\ zero_reads = 0
    /\ \E n \in InitialCapacities : it = FastqIter_cinit("Sequence", n)
    /\ events = <<>>
    /\ frame = NoFrame

\* the parser called again and again: a pull that is open goes on, and the
\* caller pulls anew until MaxEvents pulls have ended
SpecLive == InitLive /\ [][Next]_vars /\ WF_vars(Next)

\* __next__ finds no complete record and file.read returns more bytes than
\* _read_into_buffer asked for
ReadTooMuch ==
    /\ Len(events) < MaxEvents
    /\ ~stop_iteration(it)
    /\ ~complete(it)
    /\ \E excess \in 1..MaxExcess :
          /\ file_pos + empty_bytes_in_buffer(it) + excess <= Len(file_data)
          /\ Pass(empty_bytes_in_buffer(it) + excess)

\* no read has returned too much so far
Trusted == \A i \in 1..Len(events) : events[i].kind # "too_much"

NextOverfull ==
    \/ Trusted /\ Next
    \/ Trusted /\ ReadTooMuch

\* the parser over a file whose read may return more than it was asked for;
\* the caller gives the iterator up after that error
SpecOverfull == Init /\ [][NextOverfull]_vars

\* ------------------------------------------------------ the serializer

\* the iterator and its file, left alone while another function is called
ParserIdle ==
    /\ it = FastqIter_cinit("Sequence", 1)
    /\ file_data = <<>>
    /\ file_pos = 0
    /\ read_called = FALSE
    /\ returned = TRUE
    /\ zero_reads = 0
    /\ events = <<>>

\* the characters of the fields: 'A', CR, U+00E9 and U+20AC; the first three
\* are also bytes
Chars == {65, 13, 233, 8364}
Bytes == {c \in Chars : c <= 255}

\* the sequences over A of at most n elements
Strings(A, n) == UNION {[1..k -> A] : k \in 0..n}

InitSerialize == ParserIdle /\ frame = NoFrame

\* record.fastq_bytes(two_headers) of a Sequence
CallSequenceFastqBytes ==
    /\ frame = NoFrame
    /\ \E name \in Strings(Chars, MaxFieldLen), sequence \in Strings(Chars, MaxFieldLen),
          qualities \in Strings(Chars, MaxFieldLen), two_headers \in BOOLEAN :
          frame' = [fn |-> "Sequence.fastq_bytes", name |-> name,
                    sequence |-> sequence, qualities |-> qualities,
                    two_headers |-> two_headers,
                    out |-> Sequence_fastq_bytes(name, sequence, qualities, two_headers)]
    /\ UNCHANGED parser_vars

\* record.fastq_bytes(two_headers) of a BytesSequence
CallBytesSequenceFastqBytes ==
    /\ frame = NoFrame
    /\ \E name \in Strings(Bytes, MaxFieldLen), sequence \in Strings(Bytes, MaxFieldLen),
          qualities \in Strings(Bytes, MaxFieldLen), two_headers \in BOOLEAN :
          frame' = [fn |-> "BytesSequence.fastq_bytes", name |-> name,
                    sequence |-> sequence, qualities |-> qualities,
                    two_headers |-> two_headers,
                    out |-> BytesSequence_fastq_bytes(name, sequence, qualities,
                                                      two_headers)]
    /\ UNCHANGED parser_vars

NextSerialize ==
    \/ CallSequenceFastqBytes
    \/ CallBytesSequenceFastqBytes

SpecSerialize == InitSerialize /\ [][NextSerialize]_vars

\* ------------------------------------------------------ matching names

\* PyBytes_AS_STRING: a char* to the bytes of a bytes object.  The object
\* stores a NUL after its last byte; the byte before its first belongs to the
\* object's header, and what it holds is not defined by the bytes.
PyBytes_AS_STRING(bytes, before) == [chars |-> bytes, before |-> before]

\* ptr[i], for -1 <= i <= length
char_at(ptr, i) ==
    IF i = -1 THEN ptr.before
    ELSE IF i = Len(ptr.chars) THEN NUL
    ELSE ptr.chars[i + 1]

\* strcspn: the number of leading chars that are neither in reject nor NUL
strcspn(ptr, reject) ==
    CHOOSE n \in 0..Len(ptr.chars) :
        /\ char_at(ptr, n) \in reject \cup {NUL}
        /\ \A i \in 0..(n - 1) : char_at(ptr, i) \notin reject \cup {NUL}

\* memcmp(p, q, n) == 0; a count above the stored bytes makes it read memory
\* behind both objects, and beyond is what that comparison then yields
memcmp_equal(p, q, n, beyond) ==
    IF n > Len(p.chars) + 1 \/ n > Len(q.chars) + 1
    THEN beyond
    ELSE \A i \in 0..(n - 1) : char_at(p, i) = char_at(q, i)

\* record_ids_match
record_ids_match(header1, header2, header1_length, beyond) ==
    LET id2_length == strcspn(header2, {SPACE, TAB})
        end == char_at(header1, id2_length)
        id1endswithnumber == char_at(header1, id2_length - 1) \in ONE..THREE
        id2endswithnumber == char_at(header2, id2_length - 1) \in ONE..THREE
    IN  IF header1_length < id2_length THEN FALSE
        ELSE IF end # NUL /\ end # SPACE /\ end # TAB THEN FALSE
        ELSE IF id1endswithnumber /\ id2endswithnumber
        THEN memcmp_equal(header1, header2,
                          IF id2_length = 0 THEN SIZE_MAX ELSE id2_length - 1, beyond)
        ELSE memcmp_equal(header1, header2, id2_length, beyond)

\* record_ids_match: the offsets at which it reads header1 and header2
\* itself (strcspn reads header2 up to the byte that stops it), and the
\* number of bytes it hands to memcmp (0 when it returns before)
record_ids_match_reads(header1, header2, header1_length) ==
    LET id2_length == strcspn(header2, {SPACE, TAB})
        end == char_at(header1, id2_length)
        id1endswithnumber == char_at(header1, id2_length - 1) \in ONE..THREE
        id2endswithnumber == char_at(header2, id2_length - 1) \in ONE..THREE
    IN  IF header1_length < id2_length
        THEN [header1 |-> {}, header2 |-> 0..id2_length, compared |-> 0]
        ELSE IF end # NUL /\ end # SPACE /\ end # TAB
        THEN [header1 |-> {id2_length}, header2 |-> 0..id2_length, compared |-> 0]
        ELSE [header1 |-> {id2_length, id2_length - 1},
              header2 |-> (0..id2_length) \cup {id2_length - 1},
              compared |-> IF id1endswithnumber /\ id2endswithnumber
                           THEN (IF id2_length = 0 THEN SIZE_MAX ELSE id2_length - 1)
                           ELSE id2_length]

\* the bytes of the headers: 'r', '1', '2', ' ', tab and NUL
HeaderBytes == {114, 49, 50, SPACE, TAB, NUL}

\* what the byte before the first byte of a header holds: a digit or not
StrayBytes == {ONE, 255}

InitMatch == ParserIdle /\ frame = NoFrame

\* record_names_match_bytes(header1, header2) of two bytes objects
CallRecordNamesMatchBytes ==
    /\ frame = NoFrame
    /\ \E header1 \in Strings(HeaderBytes, MaxHeaderLen),
          header2 \in Strings(HeaderBytes, MaxHeaderLen),
          before1 \in StrayBytes, before2 \in StrayBytes, beyond \in BOOLEAN :
          frame' = [fn |-> "record_names_match_bytes",
                    header1 |-> header1, header2 |-> header2,
                    result |-> record_ids_match(PyBytes_AS_STRING(header1, before1),
                                                PyBytes_AS_STRING(header2, before2),
                                                Len(header1), beyond),
                    reads |-> record_ids_match_reads(
                                  PyBytes_AS_STRING(header1, before1),
                                  PyBytes_AS_STRING(header2, before2), Len(header1))]
    /\ UNCHANGED parser_vars

NextMatch == CallRecordNamesMatchBytes

SpecMatch == InitMatch /\ [][NextMatch]_vars

\* ------------------------------------------------------ paired heads

\* the objects handed to paired_fastq_heads: those that export a buffer (bytes,
\* bytearray, memoryview) with its bytes, and one that does not (a str, None)
BufferObject(data) == [is_buffer |-> TRUE, data |-> data]
NotABuffer == [is_buffer |-> FALSE, data |-> <<>>]

\* PyObject_GetBuffer(obj, &view, PyBUF_SIMPLE): the view is acquired, or the
\* call fails and Cython raises its TypeError
PyObject_GetBuffer(obj) == obj.is_buffer

\* memchr(data + pos, '\n', data_end - pos) of paired_fastq_heads.  The count
\* is a size_t: when data_end is before pos it is above every length, and the
\* search runs through the buffer and on into the memory behind it, where
\* after tells whether the byte that follows the buffer is a line feed.
find_newline(data, pos, data_end, after) ==
    IF data_end - pos >= 0
    THEN memchr(data, pos, data_end - pos)
    ELSE IF pos > Len(data) THEN NULL
    ELSE IF memchr(data, pos, Len(data) - pos) # NULL
    THEN memchr(data, pos, Len(data) - pos)
    ELSE IF after THEN Len(data)
    ELSE NULL

\* the loop of paired_fastq_heads, from the locals f to the locals at the break
RECURSIVE scan_lines(_)
scan_lines(f) ==
    CHOOSE out \in
        {IF found1 = NULL THEN f
         ELSE CHOOSE o \in
            {IF found2 = NULL THEN [f EXCEPT !.pos1 = found1 + 1]
             ELSE scan_lines(
                    IF f.linebreaks + 1 = 4
                    THEN [f EXCEPT !.pos1 = found1 + 1, !.pos2 = found2 + 1,
                                   !.linebreaks = 0,
                                   !.record_start1 = found1 + 1,
                                   !.record_start2 = found2 + 1]
                    ELSE [f EXCEPT !.pos1 = found1 + 1, !.pos2 = found2 + 1,
                                   !.linebreaks = f.linebreaks + 1]) :
                found2 \in {find_newline(f.data2, f.pos2, f.data2_end, f.after2)}} : TRUE :
            found1 \in {find_newline(f.data1, f.pos1, f.data1_end, f.after1)}} : TRUE

\* paired_fastq_heads: what it returns or that it raised, and the views that
\* are acquired and not released when it is left
paired_fastq_heads(buf1, buf2, end1, end2, after1, after2) ==
    IF ~PyObject_GetBuffer(buf1)
    THEN [raised |-> TRUE, value |-> <<>>, held |-> {}]
    ELSE IF ~PyObject_GetBuffer(buf2)
    THEN [raised |-> TRUE, value |-> <<>>, held |-> {"data1_buffer"}]
    ELSE LET at_break ==
                scan_lines([data1 |-> buf1.data, data2 |-> buf2.data,
                            data1_end |-> Min(end1, Len(buf1.data)),
                            data2_end |-> Min(end2, Len(buf2.data)),
                            after1 |-> after1, after2 |-> after2,
                            pos1 |-> 0, pos2 |-> 0, linebreaks |-> 0,
                            record_start1 |-> 0, record_start2 |-> 0])
         IN  [raised |-> FALSE,
              value |-> <<at_break.record_start1, at_break.record_start2>>,
              held |-> {"data1_buffer", "data2_buffer"}
                          \ {"data1_buffer", "data2_buffer"}]

\* n lines: every line is a bare LF, or every odd line is 'A' LF
RECURSIVE LinesOf(_, _)
LinesOf(n, shape) ==
    IF n = 0 THEN <<>>
    ELSE LinesOf(n - 1, shape)
            \o (IF shape = "mixed" /\ n % 2 = 1 THEN <<65, LF>> ELSE <<LF>>)

HeadBuffers == {LinesOf(n, shape) : n \in 0..MaxLines, shape \in {"bare", "mixed"}}

HeadObjects == {BufferObject(data) : data \in HeadBuffers} \cup {NotABuffer}

InitHeads == ParserIdle /\ frame = NoFrame

\* paired_fastq_heads(buf1, buf2, end1, end2); end1 and end2 are Py_ssize_t
CallPairedFastqHeads ==
    /\ frame = NoFrame
    /\ \E buf1 \in HeadObjects, buf2 \in HeadObjects :
       \E end1 \in -1..(Len(buf1.data) + 1), end2 \in -1..(Len(buf2.data) + 1),
          after1 \in BOOLEAN, after2 \in BOOLEAN :
          frame' = [fn |-> "paired_fastq_heads", buf1 |-> buf1, buf2 |-> buf2,
                    end1 |-> end1, end2 |-> end2,
                    out |-> paired_fastq_heads(buf1, buf2, end1, end2,
                                               after1, after2)]
    /\ UNCHANGED parser_vars

NextHeads == CallPairedFastqHeads

SpecHeads == InitHeads /\ [][NextHeads]_vars

\* ------------------------------------------------- the format, by lines

\* The definitions of this section read the file's bytes as lines, as the
\* FASTQ grammar does; they use nothing of the parser.

\* the offsets (from 1) of the line feeds of F
LineFeeds(F) == {i \in 1..Len(F) : F[i] = LF}

\* the offset of the k-th line feed of F; 0 for k = 0, and past the end of F
\* for a k beyond its line feeds
LineFeed(F, k) ==
    IF k = 0 THEN 0
    ELSE IF k > Cardinality(LineFeeds(F)) THEN Len(F) + 1
    ELSE CHOOSE p \in LineFeeds(F) : Cardinality({q \in LineFeeds(F) : q < p}) = k - 1

\* the number of LF-terminated lines of F
NumLines(F) == Cardinality(LineFeeds(F))

\* the k-th line of F, without its line feed (empty when F has no such line)
Line(F, k) == SubSeq(F, LineFeed(F, k - 1) + 1, LineFeed(F, k) - 1)

\* l without one trailing CR
Chomp(l) == IF Len(l) > 0 /\ l[Len(l)] = CR THEN SubSeq(l, 1, Len(l) - 1) ELSE l

\* l without its first byte
Rest(l) == SubSeq(l, 2, Len(l))

\* the name, sequence, second header and qualities of the k-th record of F
NameOf(F, k) == Chomp(Rest(Line(F, 4 * k - 3)))
SequenceOf(F, k) == Chomp(Line(F, 4 * k - 2))
SecondHeaderOf(F, k) == Chomp(Rest(Line(F, 4 * k - 1)))
QualitiesOf(F, k) == Chomp(Line(F, 4 * k))

\* lines 4k-3 .. 4k of F are a record of the grammar
ValidRecord(F, k) ==
    /\ 4 * k <= NumLines(F)
    /\ Line(F, 4 * k - 3) # <<>> /\ Line(F, 4 * k - 3)[1] = AT
    /\ Line(F, 4 * k - 1) # <<>> /\ Line(F, 4 * k - 1)[1] = PLUS
    /\ NameOf(F, k) # <<>>
    /\ SequenceOf(F, k) # <<>>
    /\ SecondHeaderOf(F, k) \in {<<>>, NameOf(F, k)}
    /\ Len(QualitiesOf(F, k)) = Len(SequenceOf(F, k))

\* F is a file of the grammar: one or more records, every line LF-terminated
Valid(F) ==
    /\ F # <<>>
    /\ F[Len(F)] = LF
    /\ NumLines(F) % 4 = 0
    /\ \A k \in 1..(NumLines(F) \div 4) : ValidRecord(F, k)

\* F with a line feed added when it does not end in one
Terminated(F) == IF F # <<>> /\ F[Len(F)] # LF THEN Append(F, LF) ELSE F

\* the events of a file of N records read as the class c: the header, the
\* records in the order of the file, the end
Expected(F, c) ==
    <<HeaderEvent(SecondHeaderOf(F, 1) # <<>>)>>
    \o [k \in 1..(NumLines(F) \div 4) |->
            RecordEvent(c, NameOf(F, k), SequenceOf(F, k), QualitiesOf(F, k))]
    \o <<EndEvent>>

\* The same, worked out once for every input of the model.
ValidInputs == {F \in Inputs : Valid(F)}

ValidStarts == {F \in Inputs : ValidRecord(Terminated(F), 1)}

RepeatedHeader == {F \in Inputs : SecondHeaderOf(Terminated(F), 1) # <<>>}

ExpectedOf == [F \in ValidInputs, c \in SequenceClasses |-> Expected(F, c)]

RecordsIn == [F \in ValidInputs |-> NumLines(F) \div 4]

\* events starts as `expected` does and, past its end, holds only EndEvent
Follows(expected) ==
    \A i \in 1..Len(events) :
        events[i] = IF i <= Len(expected) THEN expected[i] ELSE EndEvent

Types(t) == {i \in 1..Len(events) : events[i].type = t}

\* ------------------------------------------------------------- claims

\* C1: no Record is returned before the Header boolean, the Header is returned
\* at most once, exactly one Header precedes every Record, and the boolean is
\* true iff the second header of the first record (the third line without its
\* '+' and without one trailing CR) is not empty.
C1_HeaderOnceBeforeRecords ==
    /\ Cardinality(Types("Header")) <= 1
    /\ \A i \in Types("Record") :
          Cardinality({j \in Types("Header") : j < i}) = 1
    /\ \A j \in Types("Header") :
          events[j].flag = (file_data \in RepeatedHeader)

\* C1 witness: a Header that reports FALSE for a third line "+" CR LF was
\* followed by a Record
C1_Witness ==
    /\ Line(file_data, 3) = <<PLUS, CR>>
    /\ \E j \in Types("Header"), i \in Types("Record") :
          j < i /\ events[j].flag = FALSE

C3_EndIsAbsorbing ==
    [][it.eof =>
          /\ it'.eof
          /\ it'.record_start = it.record_start
          /\ it'.bytes_in_buffer = it.bytes_in_buffer
          /\ it'.buffer_size = it.buffer_size
          /\ it'.number_of_records = it.number_of_records
          /\ ~read_called'
          /\ file_pos' = file_pos
          /\ events' = Append(events, EndEvent)]_vars

\* C3 witness: two pulls in a row raised StopIteration after a record
C3_Witness ==
    /\ it.eof
    /\ it.number_of_records >= 1
    /\ Len(events) >= 2
    /\ events[Len(events)] = EndEvent
    /\ events[Len(events) - 1] = EndEvent

\* C4: on a file of the grammar the pulls return the Header, then the N
\* records of the file in order (4N its number of lines), then the end; no
\* error is raised and number_of_records ends at N.
C4_ValidFileParses ==
    file_data \in ValidInputs =>
        /\ Follows(ExpectedOf[file_data, it.sequence_class])
        /\ it.number_of_records <= RecordsIn[file_data]
        /\ it.eof => it.number_of_records = RecordsIn[file_data]

\* C4 witness: a file of two records was read to its end
C4_Witness ==
    /\ file_data \in ValidInputs
    /\ RecordsIn[file_data] = 2
    /\ Len(events) >= 4
    /\ events[4] = EndEvent

\* C5: every record returned, whatever the sequence class, has qualities as
\* long as its sequence.
C5_EqualLengths ==
    \A i \in Types("Record") :
        Len(events[i].qualities) = Len(events[i].sequence)

\* C5 witness: the custom class was called for a record whose sequence line
\* ends in CR LF and whose quality line ends in LF alone
C5_Witness ==
    /\ it.use_custom_class
    /\ Line(file_data, 2) = <<65, CR>>
    /\ Line(file_data, 4) = <<33>>
    /\ \E i \in Types("Record") : events[i].cls = "Custom"

\* events is a prefix of `full`
StartsOf(full) ==
    \A i \in 1..Len(events) : i <= Len(full) /\ events[i] = full[i]

\* events and `upto` agree as far as both go: the pulls up to the one that
\* returns or raises the last event of `upto` did as `upto` says
AgreesWith(upto) ==
    \A i \in 1..Min(Len(events), Len(upto)) : events[i] = upto[i]

\* the events of every input of the model read with a buffer that never grows
CanonOf == [F \in Inputs, c \in SequenceClasses |-> Parse(F, c, BigCap)]

\* C6: whatever the initial buffer size (1, 2, ..., or one larger than the
\* input) and the sizes of the reads, the events are those of the same input
\* read whole into a buffer that never grows: same Header, same records, same
\* end or same error and line.
C6_GrowthTransparent ==
    StartsOf(CanonOf[file_data, it.sequence_class])

\* C6 witness: a file of two records was read to its end through a buffer
\* that had to grow
C6_Witness ==
    /\ it.buffer_size \notin InitialCapacities
    /\ it.eof
    /\ it.number_of_records = 2

\* no line of F ends in CR
PlainEndings(F) == \A i \in LineFeeds(F) : i = 1 \/ F[i - 1] # CR

\* the events of F.replace(b"\n", b"\r\n") for every file of the grammar
CrlfOf == [F \in ValidInputs, c \in SequenceClasses |-> Parse(ToCRLF(F), c, BigCap)]

\* C7 as stated: a file of the grammar and the same file with every LF
\* replaced by CR LF give the same Header and records
C7_CrlfEquivalence ==
    file_data \in ValidInputs => StartsOf(CrlfOf[file_data, it.sequence_class])

\* C7 amended: a file of the grammar none of whose lines ends in CR, and the
\* same file with every LF replaced by CR LF, give the same Header and records:
\* one trailing CR is removed from each of the four lines.
C7_CrlfEquivalencePlain ==
    file_data \in ValidInputs /\ PlainEndings(file_data) =>
        StartsOf(CrlfOf[file_data, it.sequence_class])

\* C7 witness: a file of two records with LF endings, the second header of its
\* first record repeated, was read to its end
C7_Witness ==
    /\ file_data \in ValidInputs
    /\ PlainEndings(file_data)
    /\ file_data \in RepeatedHeader
    /\ it.number_of_records = 2
    /\ it.eof

\* parsing the serialization of r gives Header(False), r, and the end
RoundTrips(r) ==
    Parse(fastq_bytes(r, FALSE), r.cls, BigCap)
        = <<HeaderEvent(FALSE), r>> \o [i \in 1..(MaxEvents - 2) |-> EndEvent]

EndsInCR(l) == l # <<>> /\ l[Len(l)] = CR

\* the latest event, a record of the class Sequence or BytesSequence
\* returned from a file of the grammar
LatestRecord ==
    /\ file_data \in ValidInputs
    /\ ~it.use_custom_class
    /\ events # <<>>
    /\ events[Len(events)].type = "Record"

\* C8 as stated: every record returned from a file of the grammar parses back
\* from its fastq_bytes(two_headers=False)
C8_RoundTrip ==
    LatestRecord => RoundTrips(events[Len(events)])

\* C8 amended: every record returned from a file of the grammar, none of whose
\* name, sequence and qualities ends in CR, parses back from its
\* fastq_bytes(two_headers=False): Header(False), the record, the end.
C8_RoundTripNoCR ==
    /\ LatestRecord
    /\ ~EndsInCR(events[Len(events)].name)
    /\ ~EndsInCR(events[Len(events)].sequence)
    /\ ~EndsInCR(events[Len(events)].qualities)
    => RoundTrips(events[Len(events)])

\* C8 witness: a record was returned from a file with CR LF endings whose
\* first record repeats its header
C8_Witness ==
    /\ LatestRecord
    /\ file_data \in RepeatedHeader
    /\ ~PlainEndings(file_data)
    /\ ~EndsInCR(events[Len(events)].name)
    /\ ~EndsInCR(events[Len(events)].sequence)
    /\ ~EndsInCR(events[Len(events)].qualities)

\* the inputs that are a file of the grammar without its last line feed
NoFinalLF == {F \in Inputs : Append(F, LF) \in ValidInputs}

\* the bytes of the buffer not yet parsed
Pending(self) == self.bytes_in_buffer - self.record_start

\* C9: a file of the grammar without its last line feed gives the events of
\* the file with it; extra_newline is never reset, and a byte that does not
\* come from the file enters the buffer only in the step that sets it.
C9_MissingNewlineTolerated ==
    /\ [](file_data \in NoFinalLF =>
            StartsOf(CanonOf[Append(file_data, LF), it.sequence_class]))
    /\ [][/\ it.extra_newline => it'.extra_newline
          /\ Pending(it') > Pending(it) + (file_pos' - file_pos) =>
                /\ ~it.extra_newline
                /\ it'.extra_newline
                /\ Pending(it') = Pending(it) + (file_pos' - file_pos) + 1]_vars

\* C9 witness: a file of two records without its last line feed was read to
\* its end
C9_Witness ==
    /\ file_data \in NoFinalLF
    /\ it.extra_newline
    /\ it.number_of_records = 2
    /\ it.eof

\* the number of complete four-line groups of F, and what follows them
Whole(F) == NumLines(F) \div 4
TailOf(F) == SubSeq(F, LineFeed(F, 4 * Whole(F)) + 1, Len(F))

\* the Header and the records of the four-line groups of F
LeadEvents(F, c) ==
    IF Whole(F) = 0 THEN <<>>
    ELSE <<HeaderEvent(SecondHeaderOf(F, 1) # <<>>)>>
         \o [k \in 1..Whole(F) |->
                RecordEvent(c, NameOf(F, k), SequenceOf(F, k), QualitiesOf(F, k))]

\* the inputs that end, after records of the grammar, in a tail that is not
\* empty and not a record of the grammar even with its last line feed added
Stranded ==
    {F \in Inputs :
        /\ \A k \in 1..Whole(F) : ValidRecord(F, k)
        /\ TailOf(F) # <<>>
        /\ ~ValidRecord(Terminated(TailOf(F)), 1)}

\* those whose tail has fewer than four lines even with a line feed added
Short == {F \in Stranded : NumLines(Terminated(TailOf(F))) < 4}

\* those whose tail lacks only its last line feed and is, with it, a record
\* whose sequence and qualities differ in length
Unequal ==
    {F \in Stranded \ Short :
        LET T == Terminated(TailOf(F))
        IN  /\ Line(T, 1) # <<>> /\ Line(T, 1)[1] = AT
            /\ Line(T, 3) # <<>> /\ Line(T, 3)[1] = PLUS
            /\ SecondHeaderOf(T, 1) \in {<<>>, NameOf(T, 1)}
            /\ Len(QualitiesOf(T, 1)) # Len(SequenceOf(T, 1))}

PrematureEof(F) ==
    ErrorEvent("premature_eof", 4 * Whole(F) + NumLines(TailOf(F)), <<TailOf(F)>>)

PrematureOf ==
    [F \in Stranded, c \in SequenceClasses |-> LeadEvents(F, c) \o <<PrematureEof(F)>>]

UnequalOf ==
    [F \in Unequal, c \in SequenceClasses |->
        LeadEvents(F, c) \o <<ErrorEvent("lengths", 4 * Whole(F) + 3, <<>>)>>]

\* C10 as stated: when the file ends in a tail that is not empty and not a
\* complete record, the failing pull raises the premature-end-of-file error,
\* with the tail in its message, at line 4 * number_of_records + the number of
\* line feeds of the tail
C10_TruncatedIsPrematureEof ==
    file_data \in Stranded => AgreesWith(PrematureOf[file_data, it.sequence_class])

\* C10 amended: when the file ends in a tail that is not empty and has fewer
\* than four lines even with the synthetic line feed, the failing pull raises
\* the premature-end-of-file error, with the tail in its message, at line
\* 4 * number_of_records + the number of line feeds of the tail; a tail that
\* lacks only its last line feed is checked as a record, and raises the
\* length error at line 4 * number_of_records + 3 when its sequence and
\* qualities differ in length.
C10_ShortTailIsPrematureEof ==
    /\ file_data \in Short => AgreesWith(PrematureOf[file_data, it.sequence_class])
    /\ file_data \in Unequal => AgreesWith(UnequalOf[file_data, it.sequence_class])

\* C10 witness: after a record, a tail of two lines and a half was reported as
\* a premature end of file, the synthetic line feed taken off again
C10_Witness ==
    /\ file_data \in Short
    /\ it.extra_newline
    /\ it.number_of_records = 1
    /\ Len(events) = 3
    /\ events[3].kind = "premature_eof"
    /\ events[3].line = 6

\* the bytes of the buffer not yet parsed, as a file of their own
PendingBytes(self) == Slice(self.buffer, self.record_start, self.bytes_in_buffer)

\* the second header of the k-th record of F is given and is not its name
Differing(F, k) ==
    /\ SecondHeaderOf(F, k) # <<>>
    /\ SecondHeaderOf(F, k) # NameOf(F, k)

\* The first of the four checks that the four lines at the start of P fail:
\* the kind of its error and the offset of its line in the record; the kind
\* is "" when they pass all four.
FirstFailure(P) ==
    IF P[1] # AT THEN [kind |-> "no_at", offset |-> 0]
    ELSE IF P[LineFeed(P, 2) + 1] # PLUS THEN [kind |-> "no_plus", offset |-> 2]
    ELSE IF Differing(P, 1) THEN [kind |-> "descriptions", offset |-> 2]
    ELSE IF Len(QualitiesOf(P, 1)) # Len(SequenceOf(P, 1))
    THEN [kind |-> "lengths", offset |-> 3]
    ELSE [kind |-> "", offset |-> 0]

\* the step ends a pull with the error e
Raises(e) == events' = Append(events, e) /\ e.type = "Error"

\* the latest event, once there is one
Latest == events[Len(events)]

\* C11: a pull raises a structural FastqFormatError only when four line feeds
\* are pending, and then exactly when one of the four checks fails: the first
\* to fail, in the order '@', '+', second header differing from the name,
\* lengths, decides the error, whose line is 4 * number_of_records + 0, 2, 2
\* or 3; the step leaves record_start and number_of_records as they were and
\* returns neither Record nor Header.
C11_ChecksInOrder ==
    [][/\ ~it.eof /\ NumLines(PendingBytes(it)) >= 4
          /\ FirstFailure(PendingBytes(it)).kind # ""
          => /\ Len(events') = Len(events) + 1
             /\ Raises(events'[Len(events')])
             /\ events'[Len(events')].kind = FirstFailure(PendingBytes(it)).kind
             /\ events'[Len(events')].line =
                   4 * it.number_of_records + FirstFailure(PendingBytes(it)).offset
             /\ it'.record_start = it.record_start
             /\ it'.number_of_records = it.number_of_records
       /\ /\ Len(events') = Len(events) + 1
          /\ Raises(events'[Len(events')])
          /\ events'[Len(events')].kind # "premature_eof"
          => /\ NumLines(PendingBytes(it)) >= 4
             /\ events'[Len(events')].kind = FirstFailure(PendingBytes(it)).kind]_vars

\* for every input, the first of its four-line groups whose second header is
\* given and is not its name (0 when there is none)
FirstDiffering ==
    [F \in Inputs |->
        LET T == Terminated(F)
            ks == {k \in 1..Whole(T) : Differing(T, k)}
        IN  IF ks = {} THEN 0 ELSE MinOf(ks)]

\* C12: a record whose second header is given is returned only if the second
\* header equals the name in every byte, NUL bytes included: the record of a
\* four-line group whose second header differs from its name in any byte is
\* never returned, and the error for it has line 4 * number_of_records + 2.
C12_SecondHeaderEqualsName ==
    FirstDiffering[file_data] # 0 =>
        /\ it.number_of_records < FirstDiffering[file_data]
        /\ \A i \in Types("Error") :
              events[i].kind = "descriptions" =>
                  events[i].line = 4 * (FirstDiffering[file_data] - 1) + 2

\* C13: the step that raises the premature-end-of-file error sets eof, and the
\* pull after such an error raises StopIteration without calling file.read and
\* without changing bytes_in_buffer.
C13_PrematureEofEnds ==
    [][/\ Len(events') = Len(events) + 1 /\ events'[Len(events')].kind = "premature_eof"
          => it'.eof
       /\ events # <<>> /\ Latest.kind = "premature_eof"
          => /\ events' = Append(events, EndEvent)
             /\ ~read_called'
             /\ it'.bytes_in_buffer = it.bytes_in_buffer]_vars

\* C19: when file.read returns more bytes than the buffer_size -
\* bytes_in_buffer asked for, the pull fails with the error for too much data
\* and none of the returned bytes is copied: bytes_in_buffer is the number of
\* pending bytes as before, the pending bytes are those of before, and nothing
\* is written past the end of the buffer.
C19_TooMuchDataIsFatal ==
    [][file_pos' - file_pos > empty_bytes_in_buffer(it) =>
          /\ Len(events') = Len(events) + 1
          /\ Raises(events'[Len(events')])
          /\ events'[Len(events')].kind = "too_much"
          /\ events'[Len(events')].msg =
                <<empty_bytes_in_buffer(it), file_pos' - file_pos>>
          /\ it'.bytes_in_buffer = Pending(it)
          /\ it'.record_start = 0
          /\ PendingBytes(it') = PendingBytes(it)
          /\ it'.bytes_in_buffer <= it'.buffer_size
          /\ Len(it'.buffer) = it'.buffer_size]_vars

\* C19 witness: a buffer of one byte, holding one pending byte, was doubled and
\* the file then returned two bytes for the one asked for
C19_Witness ==
    /\ events # <<>>
    /\ Latest.kind = "too_much"
    /\ Latest.msg = <<1, 2>>
    /\ it.buffer_size = 2
    /\ it.bytes_in_buffer = 1

\* lines 4k-3 .. 4k of F pass the four checks of the parser: as ValidRecord,
\* but the name and the sequence may be empty
AcceptedRecord(F, k) ==
    /\ 4 * k <= NumLines(F)
    /\ Line(F, 4 * k - 3) # <<>> /\ Line(F, 4 * k - 3)[1] = AT
    /\ Line(F, 4 * k - 1) # <<>> /\ Line(F, 4 * k - 1)[1] = PLUS
    /\ SecondHeaderOf(F, k) \in {<<>>, NameOf(F, k)}
    /\ Len(QualitiesOf(F, k)) = Len(SequenceOf(F, k))

\* the inputs made of such records, every line LF-terminated
AcceptedInputs ==
    {F \in Inputs :
        /\ F # <<>>
        /\ F[Len(F)] = LF
        /\ NumLines(F) % 4 = 0
        /\ \A k \in 1..(NumLines(F) \div 4) : AcceptedRecord(F, k)}

AcceptedOf == [F \in AcceptedInputs, c \in SequenceClasses |-> Expected(F, c)]

\* C20 as stated: every record returned has a name, a sequence and qualities
\* of at least one byte
C20_FieldsNonEmpty ==
    \A i \in Types("Record") :
        /\ Len(events[i].name) >= 1
        /\ Len(events[i].sequence) >= 1
        /\ Len(events[i].qualities) >= 1

\* C20 amended: the name, the sequence and the qualities of a record may be
\* empty: a file whose four-line groups start with '@' and '+', have a second
\* header that is empty or the name, and qualities as long as the sequence,
\* gives the Header, a Record for each group with its fields as they are (empty
\* ones included), and the end.
C20_EmptyFieldsAccepted ==
    file_data \in AcceptedInputs =>
        Follows(AcceptedOf[file_data, it.sequence_class])

\* C20 witness: after a record, a record with an empty sequence and empty
\* qualities was returned, and the file read to its end
C20_Witness ==
    /\ file_data \in AcceptedInputs
    /\ it.eof
    /\ Len(events) >= 3
    /\ events[3].type = "Record"
    /\ events[3].sequence = <<>>
    /\ events[3].qualities = <<>>
    /\ events[3].name # <<>>

\* a call of fastq_bytes has returned bytes
Serialized ==
    /\ frame.fn \in {"Sequence.fastq_bytes", "BytesSequence.fastq_bytes"}
    /\ ~frame.out.raised

\* the record of the call as the format lays it out
Layout ==
    <<AT>> \o frame.name \o <<LF>> \o frame.sequence \o <<LF>> \o <<PLUS>>
        \o (IF frame.two_headers THEN frame.name ELSE <<>>) \o <<LF>>
        \o frame.qualities \o <<LF>>

\* the number of elements of s that are b
Occurrences(s, b) == Cardinality({i \in 1..Len(s) : s[i] = b})

\* the output is the layout, of the stated length, every byte of it written
ExactLayout ==
    /\ frame.out.value = Layout
    /\ Len(frame.out.value) =
          Len(frame.name) + Len(frame.sequence) + Len(frame.qualities) + 6
            + (IF frame.two_headers THEN Len(frame.name) ELSE 0)
    /\ Occurrences(frame.out.value, Uninit) = 0

\* C14 as stated: the output of fastq_bytes is the layout, of the stated
\* length, every byte written, and holds no CR
C14_ExactLayoutNoCR ==
    Serialized => ExactLayout /\ Occurrences(frame.out.value, CR) = 0

\* C14 amended: the output of fastq_bytes (of a Sequence or a BytesSequence) is
\* '@' name LF sequence LF '+' (name if two_headers) LF qualities LF, of length
\* name_len + seq_len + qual_len + 6 (+ name_len if two_headers), every byte
\* written; it holds no CR but those of the name, the sequence and the
\* qualities themselves.
C14_ExactLayout ==
    Serialized =>
        /\ ExactLayout
        /\ Occurrences(frame.out.value, CR) =
              Occurrences(frame.name, CR) * (IF frame.two_headers THEN 2 ELSE 1)
                + Occurrences(frame.sequence, CR) + Occurrences(frame.qualities, CR)

\* C14 witness: a Sequence whose name holds a CR was serialized with two
\* headers
C14_Witness ==
    /\ Serialized
    /\ frame.fn = "Sequence.fastq_bytes"
    /\ frame.two_headers
    /\ Occurrences(frame.name, CR) = 1
    /\ frame.sequence # <<>>

NonAscii(str) == \E i \in 1..Len(str) : str[i] > 127

\* C15: fastq_bytes of a Sequence raises whenever its sequence or its
\* qualities holds a character above 127, and only then: never because of the
\* name.
C15_NonAsciiRejected ==
    frame.fn = "Sequence.fastq_bytes" =>
        frame.out.raised = (NonAscii(frame.sequence) \/ NonAscii(frame.qualities))

\* the five steps of the id comparison, on the headers as byte strings
Policy(h1, h2) ==
    LET blanks == {i \in 0..(Len(h2) - 1) : h2[i + 1] \in {SPACE, TAB}}
        id2_end == IF blanks = {} THEN Len(h2)
                   ELSE CHOOSE i \in blanks : \A j \in blanks : i <= j
        shortened ==
            IF /\ id2_end >= 1
               /\ h1[id2_end] \in ONE..THREE
               /\ h2[id2_end] \in ONE..THREE
            THEN id2_end - 1
            ELSE id2_end
    IN  IF Len(h1) < id2_end THEN FALSE
        ELSE IF id2_end < Len(h1) /\ h1[id2_end + 1] \notin {SPACE, TAB} THEN FALSE
        ELSE SubSeq(h1, 1, shortened) = SubSeq(h2, 1, shortened)

\* C16: what record_ids_match(h1, h2, len(h1)) returns is what the five-step
\* policy gives for the byte strings h1 and h2.
C16_MatchIsPolicy ==
    frame.fn = "record_names_match_bytes" =>
        frame.result = Policy(frame.header1, frame.header2)

\* the headers hold no NUL and the id of h2 is not empty
PlainIds ==
    /\ \A i \in 1..Len(frame.header1) : frame.header1[i] # NUL
    /\ \A i \in 1..Len(frame.header2) : frame.header2[i] # NUL
    /\ frame.header2 # <<>>
    /\ frame.header2[1] \notin {SPACE, TAB}

\* record_ids_match follows the policy on headers without NUL whose id is not
\* empty
MatchIsPolicyOnPlainIds ==
    frame.fn = "record_names_match_bytes" /\ PlainIds =>
        frame.result = Policy(frame.header1, frame.header2)

\* buf[:end] as Python slices it
PySlice(buf, end) ==
    SubSeq(buf, 1, IF end < 0
                   THEN (IF Len(buf) + end < 0 THEN 0 ELSE Len(buf) + end)
                   ELSE Min(end, Len(buf)))

\* the offset just after the n-th LF of buf; 0 when n = 0
AfterNewline(buf, n) ==
    IF n = 0 THEN 0
    ELSE CHOOSE i \in 1..Len(buf) :
            buf[i] = LF /\ Occurrences(SubSeq(buf, 1, i), LF) = n

\* the number of whole records that both buf1[:min(end1, len)] and
\* buf2[:min(end2, len)] hold
WholeRecords ==
    Min(Occurrences(PySlice(frame.buf1.data,
                            Min(frame.end1, Len(frame.buf1.data))), LF) \div 4,
        Occurrences(PySlice(frame.buf2.data,
                            Min(frame.end2, Len(frame.buf2.data))), LF) \div 4)

HeadsReturned == frame.fn = "paired_fastq_heads" /\ ~frame.out.raised

\* C17: paired_fastq_heads returns, for each buffer, the offset just after the
\* 4k-th newline, k being the smaller of the numbers of whole four-line
\* records in buf1[:min(end1, len(buf1))] and buf2[:min(end2, len(buf2))].
C17_HeadsOfWholeRecords ==
    HeadsReturned =>
        frame.out.value = <<AfterNewline(frame.buf1.data, 4 * WholeRecords),
                            AfterNewline(frame.buf2.data, 4 * WholeRecords)>>

\* paired_fastq_heads returns the heads of C17 whenever neither end is negative
HeadsOfWholeRecordsInRange ==
    HeadsReturned /\ frame.end1 >= 0 /\ frame.end2 >= 0 =>
        frame.out.value = <<AfterNewline(frame.buf1.data, 4 * WholeRecords),
                            AfterNewline(frame.buf2.data, 4 * WholeRecords)>>

\* two whole records were found in buffers that hold different numbers of lines
TwoWholeRecords ==
    /\ HeadsReturned
    /\ frame.end1 >= 0 /\ frame.end2 >= 0
    /\ WholeRecords = 2
    /\ frame.out.value[1] # frame.out.value[2]
    /\ frame.out.value[1] < Min(frame.end1, Len(frame.buf1.data))

\* C18: when paired_fastq_heads is left, by return or by an error, no view
\* that it acquired is still held.
C18_ViewsReleased ==
    frame.fn = "paired_fastq_heads" => frame.out.held = {}

\* the latest pass called _read_into_buffer, which returned without an error
Refilled == read_called /\ ~returned

\* the latest pass appended the line feed that the file lacks
NewlineAppended == Refilled /\ it.extra_newline /\ ~it.eof

\* C21: in every state of the parser 0 <= record_start <= bytes_in_buffer <=
\* buffer_size, buffer_size >= 1 and the buffer is buffer_size bytes long; the
\* line feed that _read_into_buffer appends lies inside the buffer, at the
\* offset bytes_in_buffer - 1 < buffer_size.
C21_BufferBounds ==
    /\ 0 <= it.record_start
    /\ it.record_start <= it.bytes_in_buffer
    /\ it.bytes_in_buffer <= it.buffer_size
    /\ it.buffer_size >= 1
    /\ Len(it.buffer) = it.buffer_size
    /\ NewlineAppended =>
          /\ it.bytes_in_buffer - 1 < it.buffer_size
          /\ At(it.buffer, it.bytes_in_buffer - 1) = LF

\* C21 witness: the line feed was appended at the last offset of a buffer that
\* had grown
C21_Witness ==
    /\ NewlineAppended
    /\ it.bytes_in_buffer = it.buffer_size
    /\ it.buffer_size \notin InitialCapacities

\* this step is a pass that calls _read_into_buffer
Refill == read_called' /\ (it' # it \/ file_pos' # file_pos \/ events' # events)

\* the bytes that this step adds behind those pending before it: what the
\* file returned, and the line feed when it is appended in this step
Added ==
    SubSeq(file_data, file_pos + 1, file_pos')
        \o (IF it'.extra_newline /\ ~it.extra_newline THEN <<LF>> ELSE <<>>)

\* C22: a pass that refills doubles buffer_size when record_start = 0 and
\* bytes_in_buffer = buffer_size held before it, and keeps the bytes of the
\* buffer where they were; any other refill leaves buffer_size as it was and
\* moves the pending bytes to offset 0 (bytes_in_buffer - record_start of
\* them, before the bytes read are added).  record_start is 0 after every
\* refill, and no step of the parser makes buffer_size smaller.
C22_GrowthOnlyWhenFull ==
    [][/\ it'.buffer_size >= it.buffer_size
       /\ ~Refill => it'.buffer_size = it.buffer_size
       /\ Refill =>
            /\ it'.record_start = 0
            /\ IF it.record_start = 0 /\ it.bytes_in_buffer = it.buffer_size
               THEN /\ it'.buffer_size = 2 * it.buffer_size
                    /\ Slice(it'.buffer, 0, it.bytes_in_buffer)
                          = Slice(it.buffer, 0, it.bytes_in_buffer)
               ELSE /\ it'.buffer_size = it.buffer_size
                    /\ Slice(it'.buffer, 0, Pending(it)) = PendingBytes(it)
            /\ ~returned' /\ ~it'.eof =>
                  /\ it'.bytes_in_buffer = Pending(it) + Len(Added)
                  /\ PendingBytes(it') = PendingBytes(it) \o Added]_vars

\* C22 witness: a refill has left bytes pending after a record was returned
\* (so the bytes behind that record were moved to offset 0), in a buffer that
\* was doubled more than once
C22_Witness ==
    /\ Refilled
    /\ it.number_of_records >= 1
    /\ it.bytes_in_buffer > 0
    /\ it.buffer_size \notin InitialCapacities
    /\ it.buffer_size >= 16

\* C23 as stated: after a refill that returns without an error the pending
\* bytes hold a complete record, or the buffer is full, or the file returned
\* no bytes in that refill.
C23_RefillCompleteFullOrEof ==
    [][Refill /\ ~returned' =>
          \/ complete(it')
          \/ it'.bytes_in_buffer = it'.buffer_size
          \/ file_pos' = file_pos]_vars

\* C23 amended: after a refill that returns without an error the pending
\* bytes hold a complete record, or the buffer is full, or the file returned
\* fewer bytes than the refill asked for (none at the end of the stream, or a
\* short read).
C23_RefillCompleteFullOrShort ==
    [][Refill /\ ~returned' =>
          \/ complete(it')
          \/ it'.bytes_in_buffer = it'.buffer_size
          \/ file_pos' - file_pos < empty_bytes_in_buffer(it)]_vars

\* C23 witness: a refill got some bytes, fewer than asked for and not the last
\* of the file, and left neither a complete record nor a full buffer
C23_Witness ==
    /\ Refilled
    /\ ~it.eof /\ ~it.extra_newline
    /\ ~complete(it)
    /\ it.bytes_in_buffer < it.buffer_size
    /\ 0 < file_pos /\ file_pos < Len(file_data)

\* no pull has raised the premature-end-of-file error
BeforeEofError == \A i \in 1..Len(events) : events[i].kind # "premature_eof"

\* the appended line feed is among the pending bytes
NewlinePending == it.extra_newline /\ Pending(it) > 0

\* the number of bytes of the file in the records returned so far: those read
\* less those pending
Consumed == file_pos - (Pending(it) - (IF NewlinePending THEN 1 ELSE 0))

\* the bytes of the records returned so far, the appended line feed included
\* once a record has taken it
Emitted ==
    SubSeq(file_data, 1, Consumed)
        \o (IF it.extra_newline /\ ~NewlinePending THEN <<LF>> ELSE <<>>)

\* C24: until a pull raises the premature-end-of-file error, the pending
\* bytes are the bytes of the file from the end of the last returned record to
\* the last byte read, followed by the appended line feed while it is pending;
\* the bytes before them are exactly number_of_records whole records.
C24_PendingIsSourceSlice ==
    BeforeEofError =>
        /\ 0 <= Consumed /\ Consumed <= file_pos
        /\ PendingBytes(it)
              = SubSeq(file_data, Consumed + 1, file_pos)
                  \o (IF NewlinePending THEN <<LF>> ELSE <<>>)
        /\ count(Emitted) = 4 * it.number_of_records
        /\ Emitted # <<>> => Emitted[Len(Emitted)] = LF

\* C24 witness: after a record was returned, bytes of the next one were moved
\* to offset 0 of a buffer that had been doubled, a short read added to them,
\* and more of the file is still to be read
C24_Witness ==
    /\ BeforeEofError
    /\ Refilled
    /\ it.number_of_records >= 1
    /\ it.buffer_size \notin InitialCapacities
    /\ Pending(it) >= 3
    /\ 0 < Consumed /\ file_pos < Len(file_data)

\* C25: every pull ends: a pass that goes round the loop is followed, after
\* finitely many passes, by one that returns or raises.  Every read asks for
\* at least one byte, and no pull makes more than two reads that get none.
C25_PullsTerminate ==
    /\ [](~stop_iteration(it) /\ ~complete(it) => empty_bytes_in_buffer(it) >= 1)
    /\ [](zero_reads <= 2)
    /\ (~returned ~> returned)

\* C25 witness: a pull ended after two reads that got no bytes, the first of
\* which appended the line feed, in a buffer that had been doubled
C25_Witness ==
    /\ returned
    /\ zero_reads = 2
    /\ it.extra_newline
    /\ it.buffer_size \notin InitialCapacities
    /\ Len(events) >= 1

\* C26: record_ids_match reads header1 and header2 only at offsets from 0 to
\* their lengths (the NUL behind the last byte included) and compares a
\* number of bytes from 0 to the length of the shorter header: it never reads
\* offset -1 and id2_length never wraps below 0.
C26_ReadsInBounds ==
    frame.fn = "record_names_match_bytes" =>
        /\ frame.reads.header1 \subseteq 0..Len(frame.header1)
        /\ frame.reads.header2 \subseteq 0..Len(frame.header2)
        /\ 0 <= frame.reads.compared
        /\ frame.reads.compared <= Min(Len(frame.header1), Len(frame.header2))

\* record_ids_match stays inside both headers whenever the id of header2 is
\* not empty
ReadsInBoundsOfPlainIds ==
    /\ frame.fn = "record_names_match_bytes"
    /\ frame.header2 # <<>>
    /\ frame.header2[1] \notin {SPACE, TAB, NUL}
    => /\ frame.reads.header1 \subseteq 0..Len(frame.header1)
       /\ frame.reads.header2 \subseteq 0..Len(frame.header2)
       /\ 0 <= frame.reads.compared
       /\ frame.reads.compared <= Min(Len(frame.header1), Len(frame.header2))

====
